---- MODULE Spec2Model ----
(***************************************************************************)
(* Station placement of the FSX challenge generator: the Yards / Meters    *)
(* fixed-point quantities (src/src/units.rs), the rejection sampler        *)
(* RandYardsIter and the builder new_random_challenge (src/src/main.rs).   *)
(*                                                                         *)
(* A Yards or Meters value is its milli-unit integer (the usize held by    *)
(* the newtype).  One step of the model is one iteration of the loop in    *)
(* RandYardsIter::next: a draw that is either rejected (continue) or       *)
(* emitted, the emission including the closure of new_random_challenge     *)
(* that builds the Station and its push into the collected Vec.            *)
(***************************************************************************)
EXTENDS Integers, Sequences, FiniteSets, TLC

\* Bounds of the inputs explored (milli-yards).
MaxLo == 2
MaxGap == 3

\* src/src/main.rs:73
NUM_STATIONS == 20

\* src/src/units.rs:3, YARDS_PER_METER = 1.09361 as the ratio
\* YARDS_PER_METER_NUM / YARDS_PER_METER_DEN.
YARDS_PER_METER_NUM == 109361
YARDS_PER_METER_DEN == 100000

\* Defaults of the optional query parameters, src/src/main.rs:183-188.
DEFAULT_INNER_RING == 8
DEFAULT_MID_RING == 16
DEFAULT_OUTER_RING == 24
DEFAULT_INNER_SCORE == 5
DEFAULT_MID_SCORE == 3
DEFAULT_OUTER_SCORE == 1

VARIABLES
    dist,       \* Range<Yards> handed to new_random_challenge: [start, end]
    min_gap,    \* Yards
    last,       \* RandYardsIter.last: <<>> is None, <<v>> is Some(v)
    y,          \* the local y of the loop in next: <<>> before the first draw
    pc,         \* "next": a call of next is about to draw; "loop": the loop
                \* continues after a rejected draw; "uid": the 20 stations
                \* are collected; "done": the challenge is returned;
                \* "panic": the thread panicked
    stations,   \* the Vec<Station> being collected
    ys,         \* history: the yardages next has returned, in order
    hasher,     \* the values written to the DefaultHasher, in order
    challenge   \* <<>> until new_random_challenge returns <<FSXChallenge>>

vars == <<dist, min_gap, last, y, pc, stations, ys, hasher, challenge>>

----------------------------------------------------------------------------
(* Quantity model, src/src/units.rs *)

\* Yards::new
YardsNew(val) == val * 1000

\* Yards::to_meters: (self.0 as f64 / YARDS_PER_METER) as usize.  The cast
\* truncates toward zero.  The quotient is an integer only when self.0 is a
\* multiple of 109361, so for the milli-yard values used here (0, and values
\* that are no multiple of 109361 and far below 2^53) the f64 result and the
\* exact rational have the same integer part.
\* floor(yd * DEN / NUM) is written yd - ceil(yd * (NUM - DEN) / NUM), the
\* same number, to keep the intermediate product within TLC's integers.
to_meters(yd) ==
    yd - ((yd * (YARDS_PER_METER_NUM - YARDS_PER_METER_DEN) + YARDS_PER_METER_NUM - 1)
            \div YARDS_PER_METER_NUM)

\* Meters::to_yards: (self.0 as f64 * YARDS_PER_METER) as usize, written
\* m + floor(m * (NUM - DEN) / DEN) = floor(m * NUM / DEN).
to_yards(m) ==
    m + ((m * (YARDS_PER_METER_NUM - YARDS_PER_METER_DEN)) \div YARDS_PER_METER_DEN)

\* Yards::abs_diff
abs_diff(a, b) == IF a >= b THEN a - b ELSE b - a

\* Rng::gen_range over Range<Yards> through UniformYards: the values a draw
\* can produce, the half-open range [low, high).
gen_range_inclusive(bounds) == bounds.start .. bounds.end

gen_range(bounds) == bounds.start .. (bounds.end - 1)

\* gen_range asserts that the range is not empty (rand: "cannot sample
\* empty range"; UniformInt::new: "low >= high"), and panics otherwise.
range_is_empty(bounds) == ~(bounds.start < bounds.end)

----------------------------------------------------------------------------
(* Placement sampler, src/src/main.rs:42-71 *)

\* The guard of the first match arm of next, for last = Some(ly):
\*   Some(ly) if ly.abs_diff(y) < self.min_gap => continue
rejects_inverted(ly, v) == abs_diff(ly, v) > min_gap

rejects_inclusive(ly, v) == abs_diff(ly, v) <= min_gap

rejects_any_emitted(ly, v) == \E i \in DOMAIN ys : abs_diff(ys[i], v) < min_gap

rejects(ly, v) == abs_diff(ly, v) < min_gap

\* Whether the draw v takes the first arm (continue) in the current state.
Rejected(v) == last /= <<>> /\ rejects(last[1], v)

\* self.last after the continue arm: untouched.
last_after_reject_overwritten(v) == <<v>>

last_after_reject(v) == last

\* self.last after the second arm: self.last = Some(y).
last_after_emit_forgotten(v) == last

last_after_emit(v) == <<v>>

----------------------------------------------------------------------------
(* Challenge builder, src/src/main.rs:75-129 *)

\* The closure of .enumerate().map(...): the Station of index idx and
\* yardage yds, with the ring diameters and scores of the request.
Station_num_off(idx, yds) ==
    [ array_index |-> idx,
      desc |-> "1",
      station_num |-> idx,
      skill_type |-> 0,
      num_shots_am |-> 1,
      num_shots_pro |-> 1,
      num_shots_to_use |-> 1,
      trgt_dist_women |-> to_meters(yds),
      trgt_dist_am |-> to_meters(yds),
      trgt_dist_pro |-> to_meters(yds),
      inner_ring_diam_am |-> to_meters(YardsNew(DEFAULT_INNER_RING)),
      mid_ring_diam_am |-> to_meters(YardsNew(DEFAULT_MID_RING)),
      outer_ring_diam_am |-> to_meters(YardsNew(DEFAULT_OUTER_RING)),
      inner_ring_diam_pro |-> to_meters(YardsNew(DEFAULT_INNER_RING)),
      mid_ring_diam_pro |-> to_meters(YardsNew(DEFAULT_MID_RING)),
      outer_ring_diam_pro |-> to_meters(YardsNew(DEFAULT_OUTER_RING)),
      inner_score |-> DEFAULT_INNER_SCORE,
      mid_score |-> DEFAULT_MID_SCORE,
      outer_score |-> DEFAULT_OUTER_SCORE,
      obstacle |-> 0,
      obstacle_dist |-> to_meters(YardsNew(0)) ]

Station(idx, yds) ==
    [ array_index |-> idx,
      desc |-> "1",
      station_num |-> idx + 1,
      skill_type |-> 0,
      num_shots_am |-> 1,
      num_shots_pro |-> 1,
      num_shots_to_use |-> 1,
      trgt_dist_women |-> to_meters(yds),
      trgt_dist_am |-> to_meters(yds),
      trgt_dist_pro |-> to_meters(yds),
      inner_ring_diam_am |-> to_meters(YardsNew(DEFAULT_INNER_RING)),
      mid_ring_diam_am |-> to_meters(YardsNew(DEFAULT_MID_RING)),
      outer_ring_diam_am |-> to_meters(YardsNew(DEFAULT_OUTER_RING)),
      inner_ring_diam_pro |-> to_meters(YardsNew(DEFAULT_INNER_RING)),
      mid_ring_diam_pro |-> to_meters(YardsNew(DEFAULT_MID_RING)),
      outer_ring_diam_pro |-> to_meters(YardsNew(DEFAULT_OUTER_RING)),
      inner_score |-> DEFAULT_INNER_SCORE,
      mid_score |-> DEFAULT_MID_SCORE,
      outer_score |-> DEFAULT_OUTER_SCORE,
      obstacle |-> 0,
      obstacle_dist |-> to_meters(YardsNew(0)) ]

\* What the uid loop writes to the hasher for one station:
\*   station.trgt_dist_am.to_yards().hash(&mut s)
hashed_value(station) == to_yards(station.trgt_dist_am)

----------------------------------------------------------------------------
(* The requests explored.  min, max and min_gap reach the builder as any   *)
(* milli-yard integers (Yards::from_float of the query's reals).  The      *)
(* width of the range is taken around the threshold min_gap: empty and     *)
(* inverted ranges, ranges no wider than min_gap, ranges one milli-yard    *)
(* wider than min_gap (a value then has at most one accepted successor),   *)
(* and the range 0..4 with min_gap 2, exactly twice min_gap wide, where    *)
(* the sampler has a real choice among accepted draws.                     *)
Requests ==
    { r \in [start : 0 .. MaxLo, end : 0 .. (MaxLo + MaxGap + 1), gap : 0 .. MaxGap] :
        \/ r.end <= r.start + r.gap + 1
        \/ r = [start |-> 0, end |-> 4, gap |-> 2] }

\* yards_within (main.rs:42-49) at the entry of new_random_challenge.
Init ==
    /\ \E r \in Requests :
        /\ dist = [start |-> r.start, end |-> r.end]
        /\ min_gap = r.gap
    /\ last = <<>>
    /\ y = <<>>
    /\ pc = "next"
    /\ stations = <<>>
    /\ ys = <<>>
    /\ hasher = <<>>
    /\ challenge = <<>>

Drawing == pc \in {"next", "loop"}

\* gen_range on an empty or inverted range panics.
Panic ==
    /\ Drawing
    /\ range_is_empty(dist)
    /\ pc' = "panic"
    /\ UNCHANGED <<dist, min_gap, last, y, stations, ys, hasher, challenge>>

\* One iteration of the loop that draws v and takes the continue arm.
Reject(v) ==
    /\ Drawing
    /\ ~range_is_empty(dist)
    /\ v \in gen_range(dist)
    /\ Rejected(v)
    /\ y' = <<v>>
    /\ last' = last_after_reject(v)
    /\ pc' = "loop"
    /\ UNCHANGED <<dist, min_gap, stations, ys, hasher, challenge>>

\* One iteration of the loop that draws v and returns Some(v); take and
\* enumerate hand (idx, v) to the closure and collect pushes its Station.
\* After NUM_STATIONS items take stops calling next.
Emit(v) ==
    /\ Drawing
    /\ ~range_is_empty(dist)
    /\ v \in gen_range(dist)
    /\ ~Rejected(v)
    /\ y' = <<v>>
    /\ last' = last_after_emit(v)
    /\ ys' = Append(ys, v)
    /\ stations' = Append(stations, Station(Len(stations), v))
    /\ pc' = IF Len(stations) + 1 = NUM_STATIONS THEN "uid" ELSE "next"
    /\ UNCHANGED <<dist, min_gap, hasher, challenge>>

\* main.rs:112-128: hash every station's distance, in order, and return the
\* challenge.  The name is kept as the three values it is formatted from:
\* the bounds and the sequence of hashed values that determines uid.
ComputeUid ==
    /\ pc = "uid"
    /\ hasher' = [i \in 1 .. Len(stations) |-> hashed_value(stations[i])]
    /\ challenge' = << [ name |-> [min |-> dist.start, max |-> dist.end, uid |-> hasher'],
                         num_stations |-> NUM_STATIONS,
                         stations |-> stations ] >>
    /\ pc' = "done"
    /\ UNCHANGED <<dist, min_gap, last, y, stations, ys>>

EmitAny == \E v \in gen_range(dist) : Emit(v)

RejectAny == \E v \in gen_range(dist) : Reject(v)

Next ==
    \/ Panic
    \/ RejectAny
    \/ EmitAny
    \/ ComputeUid

Spec == Init /\ [][Next]_vars

\* Draws are independent and uniform over a finite range: a value that the
\* current state accepts is drawn eventually (with probability 1), and the
\* builder's straight-line tail runs once the stations are collected.
FairSpec == Spec /\ WF_vars(EmitAny) /\ WF_vars(ComputeUid)

----------------------------------------------------------------------------
(* Shapes of the request the properties speak of. *)

Width == dist.end - dist.start

\* lo < hi and hi - lo >= 2 * min_gap
Feasible == dist.start < dist.end /\ Width >= 2 * min_gap

\* lo < hi and hi - lo < 2 * min_gap
Narrow == dist.start < dist.end /\ Width < 2 * min_gap

\* lo < hi, min_gap > 0 and hi - lo <= min_gap
Infeasible == dist.start < dist.end /\ min_gap > 0 /\ Width <= min_gap

\* v is closer than min_gap to both ends of the range: no value of the
\* range is min_gap away from it.
DeadZone(v) == v - dist.start < min_gap /\ (dist.end - 1) - v < min_gap

\* No draw of the range is accepted in the current state.
Stuck == Drawing /\ ~range_is_empty(dist) /\ \A v \in gen_range(dist) : Rejected(v)

----------------------------------------------------------------------------
(* Properties *)

\* C1: each yardage next emits differs from the one emitted before it by at
\* least min_gap, in milli-yards; so do the yardages under the stations of a
\* returned challenge.
C1_AdjacentGap ==
    \A i \in 2 .. Len(ys) :
        \/ ys[i] - ys[i - 1] >= min_gap
        \/ ys[i - 1] - ys[i] >= min_gap

C1_Witness == min_gap > 0 /\ challenge /= <<>> /\ Len(ys) = NUM_STATIONS

\* C2: every emitted yardage, the first one and each one emitted after
\* rejected draws, lies in [lo, hi) whenever lo < hi.
C2_InRange ==
    dist.start < dist.end =>
        /\ \A i \in DOMAIN ys : dist.start <= ys[i] /\ ys[i] < dist.end
        /\ last /= <<>> => (dist.start <= last[1] /\ last[1] < dist.end)

C2_Witness == pc = "loop" /\ Len(ys) >= 2 /\ ys[Len(ys)] = dist.end - 1

\* C3: the values fed to the hasher are, in order, exactly the milli-yard
\* values the sampler emitted.
C3_HashedAreSampled == pc = "done" => hasher = ys

\* C4: a returned challenge has num_stations = 20 and exactly 20 stations,
\* station i (from 0) carrying array_index i, station_num i + 1 and the
\* distance of the i-th emitted yardage.
C4_Stations ==
    challenge /= <<>> =>
        LET c == challenge[1] IN
        /\ c.num_stations = 20
        /\ Len(c.stations) = 20
        /\ Len(ys) = 20
        /\ \A i \in 0 .. 19 :
            /\ c.stations[i + 1].array_index = i
            /\ c.stations[i + 1].station_num = i + 1
            /\ c.stations[i + 1].trgt_dist_am = to_meters(ys[i + 1])
            /\ c.stations[i + 1].trgt_dist_women = to_meters(ys[i + 1])
            /\ c.stations[i + 1].trgt_dist_pro = to_meters(ys[i + 1])

C4_Witness == challenge /= <<>> /\ pc = "done"

\* C5 as stated: a range narrower than twice min_gap never yields 20
\* stations.
C5_NarrowNeverCompletes == Narrow => Len(stations) < 20 /\ pc /= "done"

\* C5 amended: in a range narrower than twice min_gap some value is closer
\* than min_gap to both ends; such a value is emitted only as the first
\* one, and after it every draw is rejected, so the builder never completes;
\* when the range is no wider than min_gap every value is such a value.
C5_NarrowCanStick ==
    Narrow =>
        /\ \E v \in gen_range(dist) : DeadZone(v)
        /\ Width <= min_gap => \A v \in gen_range(dist) : DeadZone(v)
        /\ \A i \in DOMAIN ys :
            DeadZone(ys[i]) => i = 1 /\ Len(ys) = 1 /\ Stuck /\ challenge = <<>>

C5_Witness ==
    /\ Narrow
    /\ Width > min_gap
    /\ Len(ys) = 1
    /\ DeadZone(ys[1])
    /\ pc = "loop"

\* C6: with lo < hi, min_gap > 0 and hi - lo <= min_gap the first draw is
\* emitted, every draw after it is rejected, and neither a challenge nor an
\* error is ever produced.
C6_InfeasibleSticks ==
    Infeasible =>
        /\ pc \in {"next", "loop"}
        /\ challenge = <<>>
        /\ Len(ys) <= 1
        /\ ys = <<>> => pc = "next" /\ \A v \in gen_range(dist) : ~Rejected(v)
        /\ Len(ys) = 1 => last = <<ys[1]>> /\ \A v \in gen_range(dist) : Rejected(v)

C6_Witness == Infeasible /\ Len(ys) = 1 /\ pc = "loop" /\ y /= last

\* C7: no request, ill-configured bounds included, ends in an error or a
\* panic.
C7_NeverPanics == pc /= "panic"

\* C8: a draw is rejected only for being closer than min_gap to last, the
\* value emitted most recently; a draw at least min_gap from last is
\* accepted whatever its distance to the values emitted earlier.
C8_OnlyLastBinds ==
    /\ pc = "loop" =>
        /\ last /= <<>> /\ y /= <<>>
        /\ last[1] - y[1] < min_gap
        /\ y[1] - last[1] < min_gap
    /\ (Drawing /\ last /= <<>>) =>
        \A v \in gen_range(dist) :
            (v - last[1] >= min_gap \/ last[1] - v >= min_gap) => ~Rejected(v)

C8_Witness ==
    /\ Feasible
    /\ min_gap > 0
    /\ Len(ys) >= 3
    /\ ys[3] = ys[1]

\* C9: with lo < hi and hi - lo >= 2 * min_gap every state of the sampler
\* has a draw that is accepted, and under fair draws the builder returns.
C9_FeasibleCompletes ==
    /\ [](Feasible /\ Drawing => \E v \in gen_range(dist) : ~Rejected(v))
    /\ (Feasible ~> (pc = "done" /\ challenge /= <<>>))

C9_Witness == Feasible /\ min_gap > 0 /\ pc = "done" /\ Len(stations) = 20

\* C10: the sampler is stuck only while it waits for its second value: once
\* two values are emitted the one before last is always an accepted draw,
\* and rejected draws leave last the most recently emitted value.
C10_StuckOnlyBeforeSecond ==
    /\ Stuck => Len(ys) = 1
    /\ ys /= <<>> => last = <<ys[Len(ys)]>>
    /\ (Len(ys) >= 2 /\ Drawing) =>
        /\ ys[Len(ys) - 1] \in gen_range(dist)
        /\ ~Rejected(ys[Len(ys) - 1])

C10_Witness ==
    /\ min_gap > 1
    /\ Len(ys) >= 2
    /\ pc = "loop"
    /\ y /= last

====
